---- MODULE Spec2Model ----
(***************************************************************************)
(* The CSV upload component (CSVUpload) of spatial-insights-hub:           *)
(* onDrop -> parseCSV -> validateData -> uploadData, with the external     *)
(* store reached through supabase.from('gis_sites').insert.                *)
(*                                                                         *)
(* Raw CSV cells are JavaScript strings; they are modelled as sequences    *)
(* of one-character strings so that trim and parseFloat are computed on    *)
(* the characters.  A JavaScript number is an exact decimal fraction       *)
(* [nan, num, den] (value num/den), NaN being [nan |-> TRUE].              *)
(***************************************************************************)
EXTENDS Integers, Sequences, FiniteSets, TLC

\* ------------------------------------------------------------------ bounds
\* Longest row sequence drawn for the validator on its own.
MaxLen == 2
\* Longest file (in data rows) the component is offered.
MaxRows == 120
\* Files dropped on the component in one run.
MaxDrops == 2
\* Clicks on the upload button in one run.
MaxUploads == 2

\* ------------------------------------------------------- schema registry
batchSize == 50

requiredFields == <<"site_name", "latitude", "longitude">>

\* The optional fields uploadData coerces with  row.f?.trim() || null.
optionalTextFields ==
  {"site_type", "authority", "functional_location", "licence_area",
   "power_transformers", "site_voltage", "what3words", "type",
   "voltage_transformer_ratings", "connection_queue"}

Range(s) == {s[i] : i \in DOMAIN s}

\* ------------------------------------------------------ JavaScript values
Null == [t |-> "null"]
Undefined == [t |-> "undefined"]
StrV(s) == [t |-> "str", s |-> s]
NumV(n) == [t |-> "num", n |-> n]

NaN == [nan |-> TRUE, num |-> 0, den |-> 1]
Num(n, d) == [nan |-> FALSE, num |-> n, den |-> d]

Digit == {"0", "1", "2", "3", "4", "5", "6", "7", "8", "9"}

DigitVal(c) ==
  CASE c = "0" -> 0 [] c = "1" -> 1 [] c = "2" -> 2 [] c = "3" -> 3
    [] c = "4" -> 4 [] c = "5" -> 5 [] c = "6" -> 6 [] c = "7" -> 7
    [] c = "8" -> 8 [] c = "9" -> 9

IsSpace(c) == c \in {" ", "\t"}

\* Has(row, f): the key f is present in the row object.
Has(row, f) == f \in DOMAIN row

\* Truthy(row, f): JavaScript truthiness of row[f], a string or undefined.
Truthy(row, f) == Has(row, f) /\ row[f] # <<>>

\* String.prototype.trim
RECURSIVE TrimLeft(_)
TrimLeft(s) ==
  IF s # <<>> /\ IsSpace(Head(s)) THEN TrimLeft(Tail(s)) ELSE s

RECURSIVE TrimRight(_)
TrimRight(s) ==
  IF s # <<>> /\ IsSpace(s[Len(s)])
  THEN TrimRight(SubSeq(s, 1, Len(s) - 1)) ELSE s

trim(s) == TrimRight(TrimLeft(s))

\* The longest prefix of s made of digits.
RECURSIVE DigitPrefix(_)
DigitPrefix(s) ==
  IF s # <<>> /\ Head(s) \in Digit
  THEN <<Head(s)>> \o DigitPrefix(Tail(s)) ELSE <<>>

RECURSIVE DigitsValue(_)
DigitsValue(ds) ==
  IF ds = <<>> THEN 0
  ELSE 10 * DigitsValue(SubSeq(ds, 1, Len(ds) - 1)) + DigitVal(ds[Len(ds)])

RECURSIVE Pow10(_)
Pow10(k) == IF k = 0 THEN 1 ELSE 10 * Pow10(k - 1)

\* parseFloat on a string: leading white space is skipped, then the longest
\* prefix  [+-]? digits* (. digits*)?  with at least one digit is the value;
\* whatever follows is ignored; no such prefix gives NaN.  (Exponents and
\* "Infinity" are not in the alphabet of the modelled cells.)
parseFloatStr(s) ==
  LET t == TrimLeft(s)
      signed == t # <<>> /\ Head(t) \in {"+", "-"}
      sign == IF signed /\ Head(t) = "-" THEN -1 ELSE 1
      u == IF signed THEN Tail(t) ELSE t
      ip == DigitPrefix(u)
      r == SubSeq(u, Len(ip) + 1, Len(u))
      fp == IF r # <<>> /\ Head(r) = "." THEN DigitPrefix(Tail(r)) ELSE <<>>
  IN IF ip = <<>> /\ fp = <<>> THEN NaN
     ELSE Num(sign * DigitsValue(ip \o fp), Pow10(Len(fp)))

\* parseFloat(row[f]); parseFloat(undefined) is NaN.
parseFloat(row, f) == IF Has(row, f) THEN parseFloatStr(row[f]) ELSE NaN

isNaN(x) == x.nan

\* x < k and x > k for a number x and an integer k; false for NaN.
Less(x, k) == ~x.nan /\ x.num < k * x.den
Greater(x, k) == ~x.nan /\ x.num > k * x.den

\* `${row[f]}` in a template string.
Interp(row, f) ==
  IF Has(row, f) THEN row[f]
  ELSE <<"u", "n", "d", "e", "f", "i", "n", "e", "d">>

isRisk(s) == s \in {<<"H", "i", "g", "h">>, <<"L", "o", "w">>}

\* ------------------------------------------------------------ validateData
\* The messages pushed to errors / warnings, kept structured: the row number
\* printed in the text (index + 2) and what the template interpolates.
ErrEmpty == [kind |-> "CSV file is empty"]
ErrColumns(cols) == [kind |-> "Missing required columns", cols |-> cols]
ErrMissing(n, f) == [kind |-> "Missing", row |-> n, field |-> f]
ErrInvalid(n, f, v) == [kind |-> "Invalid", row |-> n, name |-> f, value |-> v]

\* requiredFields.filter(field => !headers.includes(field))
missingRequired(data) ==
  LET headers == DOMAIN data[1]
  IN SelectSeq(requiredFields, LAMBDA f : f \notin headers)

\* The required-field loop of one row.
RECURSIVE MissingErrors(_, _, _)
MissingErrors(row, n, fs) ==
  IF fs = <<>> THEN <<>>
  ELSE (IF ~Truthy(row, Head(fs)) \/ trim(row[Head(fs)]) = <<>>
        THEN <<ErrMissing(n, Head(fs))>> ELSE <<>>)
       \o MissingErrors(row, n, Tail(fs))

\* latInvalid with the bounds themselves refused:  lat <= -90 || lat >= 90.
latInvalidOpen(lat) == isNaN(lat) \/ ~Greater(lat, -90) \/ ~Less(lat, 90)

latInvalid(lat) == isNaN(lat) \/ Less(lat, -90) \/ Greater(lat, 90)
lngInvalid(lng) == isNaN(lng) \/ Less(lng, -180) \/ Greater(lng, 180)

\* rowErrors of the row printed as row n.
rowErrors(row, n) ==
  LET lat == parseFloat(row, "latitude")
      lng == parseFloat(row, "longitude")
  IN MissingErrors(row, n, requiredFields)
     \o (IF latInvalid(lat)
         THEN <<ErrInvalid(n, "latitude", Interp(row, "latitude"))>> ELSE <<>>)
     \o (IF lngInvalid(lng)
         THEN <<ErrInvalid(n, "longitude", Interp(row, "longitude"))>> ELSE <<>>)

capacityWarning(row, n, f) ==
  IF Truthy(row, f) /\ isNaN(parseFloat(row, f))
  THEN <<ErrInvalid(n, f, row[f])>> ELSE <<>>

\* The warnings the row printed as row n pushes.
rowWarnings(row, n) ==
  (IF Truthy(row, "risk_status") /\ ~isRisk(row["risk_status"])
   THEN <<ErrInvalid(n, "risk_status", row["risk_status"])>> ELSE <<>>)
  \o capacityWarning(row, n, "summer_capacity")
  \o capacityWarning(row, n, "winter_capacity")

\* rowStep with a row disqualified by its warnings as well.
rowStepStrict(row, n) ==
  LET re == rowErrors(row, n)
      rw == rowWarnings(row, n)
  IN [errors |-> re, warnings |-> rw,
      validRows |-> IF re = <<>> /\ rw = <<>> THEN 1 ELSE 0]

\* rowStep with the header check made inside the row loop, on the row's keys.
rowStepColumns(row, n) ==
  LET re == rowErrors(row, n)
      mr == SelectSeq(requiredFields, LAMBDA f : ~Has(row, f))
  IN [errors |-> (IF mr # <<>> THEN <<ErrColumns(mr)>> ELSE <<>>) \o re,
      warnings |-> rowWarnings(row, n),
      validRows |-> IF re = <<>> THEN 1 ELSE 0]

\* rowStep with the row's warnings pushed to rowErrors as well.
rowStepWarnAsError(row, n) ==
  LET re == rowErrors(row, n) \o rowWarnings(row, n)
  IN [errors |-> re, warnings |-> rowWarnings(row, n),
      validRows |-> IF re = <<>> THEN 1 ELSE 0]

\* What one iteration of data.forEach adds to errors, warnings, validRows.
rowStep(row, n) ==
  LET re == rowErrors(row, n)
  IN [errors |-> re, warnings |-> rowWarnings(row, n),
      validRows |-> IF re = <<>> THEN 1 ELSE 0]

\* data.forEach over rows lo..hi: what the iterations add, in row order.
\* (The range is halved rather than walked row by row only to keep the
\* evaluation shallow; the pushes are concatenated left to right.)
RECURSIVE forEachRow(_, _, _)
forEachRow(data, lo, hi) ==
  IF lo > hi THEN [errors |-> <<>>, warnings |-> <<>>, validRows |-> 0]
  ELSE IF lo = hi THEN rowStep(data[lo], lo + 1)
  ELSE LET mid == (lo + hi) \div 2
           a == forEachRow(data, lo, mid)
           b == forEachRow(data, mid + 1, hi)
       IN [errors |-> a.errors \o b.errors,
           warnings |-> a.warnings \o b.warnings,
           validRows |-> a.validRows + b.validRows]

emptyReport ==
  [isValid |-> FALSE, errors |-> <<ErrEmpty>>, warnings |-> <<>>,
   rowCount |-> 0, validRows |-> 0]

\* fullReport with isValid taken from the warnings instead of the errors.
fullReportByWarnings(data) ==
  LET mr == missingRequired(data)
      acc == forEachRow(data, 1, Len(data))
      errors == (IF mr # <<>> THEN <<ErrColumns(mr)>> ELSE <<>>) \o acc.errors
  IN [isValid |-> acc.warnings = <<>>, errors |-> errors,
      warnings |-> acc.warnings, rowCount |-> Len(data),
      validRows |-> acc.validRows]

\* The report after the header check and the row loop.
fullReport(data) ==
  LET mr == missingRequired(data)
      acc == forEachRow(data, 1, Len(data))
      errors == (IF mr # <<>> THEN <<ErrColumns(mr)>> ELSE <<>>) \o acc.errors
  IN [isValid |-> errors = <<>>, errors |-> errors,
      warnings |-> acc.warnings, rowCount |-> Len(data),
      validRows |-> acc.validRows]

\* validateData with the return of the empty case missing: the header check
\* runs on  Object.keys(data[0] || {}) = []  and reports every column.
validateDataNoReturn(data) ==
  IF Len(data) = 0
  THEN [emptyReport EXCEPT !.errors = <<ErrEmpty, ErrColumns(requiredFields)>>]
  ELSE fullReport(data)

\* The value validateData passes to setValidationResult.
validateData(data) ==
  IF Len(data) = 0 THEN emptyReport ELSE fullReport(data)

\* -------------------------------------------------------------- uploadData
\* Array.prototype.slice(a, b) on a sequence (a, b are 0-based, b excluded).
slice(s, a, b) ==
  SubSeq(s, a + 1, IF b < Len(s) THEN b ELSE Len(s))

\* totalBatches with Math.floor in place of Math.ceil.
totalBatchesFloor(n) == n \div batchSize

\* Math.ceil(n / batchSize)
totalBatches(n) == (n + batchSize - 1) \div batchSize

\* row.f?.trim() || null
optionalText(row, f) ==
  IF Has(row, f) /\ trim(row[f]) # <<>> THEN StrV(trim(row[f])) ELSE Null

\* row.f ? parseFloat(row.f) : null
optionalNumber(row, f) ==
  IF Truthy(row, f) THEN NumV(parseFloat(row, f)) ELSE Null

\* One element of processedBatch.
processRow(row, u) ==
  [f \in {"site_name", "latitude", "longitude", "risk_status",
          "summer_capacity", "winter_capacity", "uploaded_by"}
         \cup optionalTextFields |->
     CASE f = "site_name" ->
            IF Has(row, f) THEN StrV(trim(row[f])) ELSE Undefined
       [] f \in {"latitude", "longitude"} -> NumV(parseFloat(row, f))
       [] f = "risk_status" ->
            IF Truthy(row, f) /\ isRisk(row[f]) THEN StrV(row[f]) ELSE Null
       [] f \in {"summer_capacity", "winter_capacity"} -> optionalNumber(row, f)
       [] f = "uploaded_by" -> u.id
       [] OTHER -> optionalText(row, f)]

\* processedBatch of loop index i (0-based) over the captured csvData.
processedBatch(data, i, u) ==
  LET batch == slice(data, i * batchSize, (i + 1) * batchSize)
  IN [k \in 1..Len(batch) |-> processRow(batch[k], u)]

\* progressAfter without the division by totalBatches.
progressAfterNoDivide(i, total) == Num((i + 1) * 100, 1)

\* progressAfter dividing by the batches done instead of totalBatches.
progressAfterOfDone(i, total) == Num((i + 1) * 100, i + 1)

\* The argument of setUploadProgress after batch i: ((i + 1) / total) * 100.
progressAfter(i, total) == Num((i + 1) * 100, total)

\* ------------------------------------------------------------------- state
VARIABLES
  user,              \* useAuth().user: Null or [id |-> ...]
  file,              \* useState: the selected file, or Null
  csvData,           \* useState: the parsed rows
  validationResult,  \* useState: the validation report, or Null
  uploading,         \* useState
  uploadProgress,    \* useState: a number
  parsing,           \* Papa.parse jobs started and not yet called back
  uploads,           \* the uploadData invocations, in click order: their
                     \* locals (i, total, the csvData and user they closed
                     \* over) and what each has observed so far (reported:
                     \* the arguments of setUploadProgress; answers: the
                     \* store's answers; said: its closing toast)
  inflight,          \* insert requests the store has not answered
  store,             \* the inserts the store has committed, in commit order
  toast,             \* the last toast shown, or Null
  drops              \* files dropped so far

vars ==
  <<user, file, csvData, validationResult, uploading, uploadProgress,
    parsing, uploads, inflight, store, toast, drops>>

TextV(s) == [t |-> "text", text |-> s]
Toast(kind, text, args) == [kind |-> kind, text |-> text, args |-> args]

Zero == Num(0, 1)

\* ------------------------------------------------------ the files offered
DigitChar(d) == <<"0", "1", "2", "3", "4", "5", "6", "7", "8", "9">>[d + 1]

RECURSIVE Digits(_)
Digits(n) ==
  IF n < 10 THEN <<DigitChar(n)>>
  ELSE Digits(n \div 10) \o <<DigitChar(n % 10)>>

High == <<"H", "i", "g", "h">>
Low == <<"L", "o", "w">>
Medium == <<"M", "e", "d", "i", "u", "m">>

\* The i-th data row of a well-formed file: a distinct name, coordinates in
\* range.
goodRow(i) ==
  [site_name |-> <<"S">> \o Digits(i),
   latitude |-> Digits(i % 91),
   longitude |-> <<"-">> \o Digits(i % 181)]

\* The row sequence Papa.parse delivers for a file, by the file's content.
FileRows(f) ==
  [i \in 1..f.n |->
     CASE f.kind = "valid" -> goodRow(i)
       [] f.kind = "error" ->
            IF i = 1 THEN [goodRow(i) EXCEPT !.latitude = <<"9", "1">>]
            ELSE goodRow(i)
       [] f.kind = "warn" ->
            [g \in {"site_name", "latitude", "longitude", "risk_status",
                    "summer_capacity", "site_type"} |->
               CASE g = "risk_status" -> IF i = f.n THEN Medium ELSE Low
                 [] g = "summer_capacity" ->
                      IF i = f.n THEN <<"a", "b", "c">> ELSE <<>>
                 [] g = "site_type" -> <<" ">>
                 [] OTHER -> goodRow(i)[g]]]

CsvFile(kind, n) == [kind |-> kind, n |-> n, type |-> "text/csv"]

\* The files dropped while the component runs several drops and uploads: a
\* two-batch file without findings, a one-row file with warnings only, one
\* with an error, one the parser fails on, and one that is not a CSV file.
Files ==
  {CsvFile("valid", batchSize + 1), CsvFile("warn", 1),
   CsvFile("error", 1), CsvFile("malformed", 0),
   [kind |-> "valid", n |-> 1, type |-> "application/pdf"]}

\* The files of a single upload: every length up to MaxRows.
UploadFiles == {CsvFile("valid", n) : n \in 1..MaxRows}

StoreErrors == {[message |-> "permission denied"]}

\* ----------------------------------------------------------------- actions
Init ==
  /\ user \in {Null, [id |-> "u1"]}
  /\ file = Null
  /\ csvData = <<>>
  /\ validationResult = Null
  /\ uploading = FALSE
  /\ uploadProgress = Zero
  /\ parsing = {}
  /\ uploads = <<>>
  /\ inflight = {}
  /\ store = <<>>
  /\ toast = Null
  /\ drops = 0

\* onDrop with a file the dropzone accepted and whose type is text/csv:
\* setFile, then parseCSV starts Papa.parse, which calls back later.
DropAccepted(f) ==
  /\ drops < MaxDrops
  /\ f.type = "text/csv"
  /\ drops' = drops + 1
  /\ file' = f
  /\ parsing' = parsing \cup {[id |-> drops + 1, file |-> f]}
  /\ UNCHANGED <<user, csvData, validationResult, uploading, uploadProgress,
                 uploads, inflight, store, toast>>

\* onDrop with no accepted file or another type.
DropRejected(f) ==
  /\ drops < MaxDrops
  /\ f.type # "text/csv"
  /\ drops' = drops + 1
  /\ toast' = Toast("error", "Please upload a valid CSV file", <<>>)
  /\ UNCHANGED <<user, file, csvData, validationResult, uploading,
                 uploadProgress, parsing, uploads, inflight, store>>

\* Papa.parse's complete callback: setCsvData(data); validateData(data).
ParseComplete(job) ==
  /\ job.file.kind # "malformed"
  /\ parsing' = parsing \ {job}
  /\ csvData' = FileRows(job.file)
  /\ validationResult' = validateData(FileRows(job.file))
  /\ UNCHANGED <<user, file, uploading, uploadProgress, uploads, inflight,
                 store, toast, drops>>

\* Papa.parse's error callback.
ParseError(job) ==
  /\ job.file.kind = "malformed"
  /\ parsing' = parsing \ {job}
  /\ toast' = Toast("error", "CSV parsing error: ", <<TextV("parse error")>>)
  /\ UNCHANGED <<user, file, csvData, validationResult, uploading,
                 uploadProgress, uploads, inflight, store, drops>>

\* The upload button is rendered:  validationResult.isValid && <Button ...>
buttonOffered == validationResult # Null /\ validationResult.isValid

\* buttonEnabled without the disabled attribute.
buttonEnabledAlways == TRUE

\* The upload button takes clicks:  disabled={uploading}
buttonEnabled == ~uploading

\* uploadData's guard:  if (!csvData || !validationResult?.isValid || !user) return
\* (an array, even an empty one, is truthy).
uploadGuard ==
  /\ validationResult # Null /\ validationResult.isValid
  /\ user # Null

\* for (...; i < totalBatches; ...)
loopContinues(i, total) == i < total

\* nextIndex stepping over a batch.
nextIndexSkip(i) == i + 2

\* for (...; ...; i++)
nextIndex(i) == i + 1

\* throws with the store's error ignored.
throwsNever(error) == FALSE

\* if (error) throw error
throws(error) == error # Null

\* The store's answer to an insert: the batch is committed whole unless the
\* store reports an error.
commits(error) == error = Null

PutUpload(u, inv) ==
  IF u > Len(uploads) THEN Append(uploads, inv)
  ELSE [uploads EXCEPT ![u] = inv]

successToast(n) ==
  Toast("success", "Successfully uploaded  sites!", <<NumV(Num(n, 1))>>)

failureToast(error) ==
  Toast("error", "Upload failed: ", <<TextV(error.message)>>)

\* uploadData from the head of its loop, with the invocation's locals inv,
\* up to the next await or to its end.  rest: the requests still unanswered;
\* upl, prog: the values of uploading and uploadProgress set so far.
RunLoop(u, inv, rest, upl, prog) ==
  IF loopContinues(inv.i, inv.total)
  THEN /\ inflight' = rest \cup
            {[up |-> u, batch |-> inv.i,
              records |-> processedBatch(inv.data, inv.i, inv.user)]}
       /\ uploads' = PutUpload(u, inv)
       /\ uploading' = upl
       /\ uploadProgress' = prog
       /\ UNCHANGED <<file, csvData, validationResult, toast>>
  ELSE /\ inflight' = rest
       /\ uploads' = PutUpload(u, [inv EXCEPT !.pc = "done",
                                   !.said = successToast(Len(inv.data))])
       /\ toast' = successToast(Len(inv.data))
       /\ file' = Null
       /\ csvData' = <<>>
       /\ validationResult' = Null
       /\ uploading' = FALSE
       /\ uploadProgress' = Zero

\* Catch with the form reset of the success path made on failure as well.
CatchClearing(u, inv, rest, error) ==
  /\ inflight' = rest
  /\ uploads' = PutUpload(u, [inv EXCEPT !.pc = "failed",
                              !.said = failureToast(error)])
  /\ toast' = failureToast(error)
  /\ uploading' = FALSE
  /\ uploadProgress' = Zero
  /\ file' = Null
  /\ csvData' = <<>>
  /\ validationResult' = Null

\* Catch without the finally block.
CatchNoFinally(u, inv, rest, error) ==
  /\ inflight' = rest
  /\ uploads' = PutUpload(u, [inv EXCEPT !.pc = "failed",
                              !.said = failureToast(error)])
  /\ toast' = failureToast(error)
  /\ UNCHANGED <<file, csvData, validationResult, uploading, uploadProgress>>

\* catch and finally of uploadData after the insert of batch inv.i failed.
Catch(u, inv, rest, error) ==
  /\ inflight' = rest
  /\ uploads' = PutUpload(u, [inv EXCEPT !.pc = "failed",
                              !.said = failureToast(error)])
  /\ toast' = failureToast(error)
  /\ uploading' = FALSE
  /\ uploadProgress' = Zero
  /\ UNCHANGED <<file, csvData, validationResult>>

\* A click on the upload button: uploadData up to its first await.
Click ==
  /\ Len(uploads) < MaxUploads
  /\ buttonOffered
  /\ buttonEnabled
  /\ IF uploadGuard
     THEN RunLoop(Len(uploads) + 1,
                  [pc |-> "await", i |-> 0,
                   total |-> totalBatches(Len(csvData)),
                   data |-> csvData, user |-> user,
                   reported |-> <<>>, answers |-> <<>>, said |-> Null],
                  inflight, TRUE, Zero)
     ELSE UNCHANGED <<file, csvData, validationResult, uploading,
                      uploadProgress, uploads, inflight, toast>>
  /\ UNCHANGED <<user, parsing, store, drops>>

\* The store answers an insert and uploadData resumes after its await.
InsertReturns(req, error) ==
  LET u == req.up
      inv == uploads[u]
      rest == inflight \ {req}
      p == progressAfter(inv.i, inv.total)
  IN /\ store' = IF commits(error) THEN Append(store, req) ELSE store
     /\ IF throws(error)
        THEN Catch(u, [inv EXCEPT !.answers = Append(@, error)], rest, error)
        ELSE RunLoop(u, [inv EXCEPT !.answers = Append(@, error),
                                    !.i = nextIndex(inv.i),
                                    !.reported = Append(@, p)],
                     rest, uploading, p)
     /\ UNCHANGED <<user, parsing, drops>>

Next ==
  \/ \E f \in Files : DropAccepted(f)
  \/ \E f \in Files : DropRejected(f)
  \/ \E job \in parsing : ParseComplete(job)
  \/ \E job \in parsing : ParseError(job)
  \/ Click
  \/ \E req \in inflight : \E error \in {Null} \cup StoreErrors :
       InsertReturns(req, error)

Spec == Init /\ [][Next]_vars

\* The store answers some outstanding insert, with an error or without.
StoreAnswers ==
  \E req \in inflight :
    \/ \E error \in StoreErrors : InsertReturns(req, error)
    \/ InsertReturns(req, Null)

\* The component with a store that answers every insert it is sent: the
\* promise uploadData awaits is settled, so its continuation is run.
SpecLive == Spec /\ WF_vars(StoreAnswers)

\* ------------------------------------------ drops while an upload is running
\* A first file is dropped on the idle component; every later file is
\* dropped while an upload is awaiting the store.
NextOverlap ==
  \/ \E f \in Files : drops = 0 /\ DropAccepted(f)
  \/ \E f \in Files : uploading /\ DropAccepted(f)
  \/ \E job \in parsing : ParseComplete(job)
  \/ Click
  \/ StoreAnswers

SpecOverlap == Init /\ [][NextOverlap]_vars

\* --------------------------------------------------- one upload on its own
\* One file of any length is dropped and parsed, and the button is clicked
\* once; the store may fail any insert.
NextUpload ==
  \/ \E f \in UploadFiles : drops = 0 /\ DropAccepted(f)
  \/ \E job \in parsing : ParseComplete(job)
  \/ uploads = <<>> /\ Click
  \/ \E req \in inflight : \E error \in {Null} \cup StoreErrors :
       InsertReturns(req, error)

SpecUpload == Init /\ [][NextUpload]_vars

\* ---------------------------------------------- the validator on its own
\* A row with every checked column present and acceptable.
baseRow ==
  [site_name |-> <<"A">>, latitude |-> <<"4", "5">>, longitude |-> <<"1", "0">>,
   risk_status |-> High, summer_capacity |-> <<"1", "0", "0">>,
   winter_capacity |-> <<"8", "0">>]

Without(row, f) == [g \in DOMAIN row \ {f} |-> row[g]]

\* Raw cell values tried in each checked column.
cellSamples(f) ==
  CASE f = "site_name" -> {<<>>, <<" ">>, <<" ", "A", " ">>}
    [] f = "latitude" ->
         {<<>>, <<" ">>, <<"9", "1">>, <<"9", "0">>, <<"-", "9", "0">>,
          <<"-", "9", "1">>, <<"9", "0", ".", "5">>, <<"a", "b", "c">>,
          <<"4", "5", "x">>, <<" ", "4", "5">>, <<"-">>}
    [] f = "longitude" ->
         {<<>>, <<"1", "8", "1">>, <<"1", "8", "0">>, <<"-", "1", "8", "0">>,
          <<"-", "1", "8", "0", ".", "1">>, <<"a", "b", "c">>}
    [] f = "risk_status" -> {<<>>, Low, Medium, <<"h", "i", "g", "h">>}
    [] f = "summer_capacity" -> {<<>>, <<"a", "b", "c">>, <<"1", ".", "5">>}
    [] f = "winter_capacity" -> {<<"a", "b", "c">>}

\* The rows drawn: the base row, the base row with one cell replaced or one
\* key absent (a short line), and rows with two or three faults.
RowSamples ==
  {baseRow}
  \cup UNION {{[baseRow EXCEPT ![f] = v] : v \in cellSamples(f)} :
              f \in DOMAIN baseRow}
  \cup {Without(baseRow, f) : f \in DOMAIN baseRow}
  \cup {[baseRow EXCEPT !.latitude = <<"9", "1">>, !.risk_status = Medium],
        [Without(baseRow, "site_name") EXCEPT !.longitude = <<"a", "b", "c">>],
        [risk_status |-> Medium, winter_capacity |-> <<"a", "b", "c">>],
        [site_name |-> <<"B">>, latitude |-> <<"0">>, longitude |-> <<"0">>]}

\* The component before any drop, as in Init, with a user signed in.
InitValidate ==
  /\ Init
  /\ user # Null

\* Papa.parse's complete callback with an arbitrary parsed row sequence, for
\* the first file of a run.
ParseCompleteAny ==
  /\ validationResult = Null
  /\ \E n \in 0..MaxLen : \E data \in [1..n -> RowSamples] :
       /\ csvData' = data
       /\ validationResult' = validateData(data)
  /\ UNCHANGED <<user, file, uploading, uploadProgress, parsing, uploads,
                 inflight, store, toast, drops>>

NextValidate == ParseCompleteAny

SpecValidate == InitValidate /\ [][NextValidate]_vars

\* ------------------------------------------------------------------ claims
\* The errors of a report that name a row.
RowLevel(errors) == {e \in Range(errors) : "row" \in DOMAIN e}

\* The data rows (1-based positions) no error of the report names; an error
\* prints the row as position + 1.
CleanRows(data, report) ==
  {i \in 1..Len(data) : \A e \in RowLevel(report.errors) : e.row # i + 1}

\* The keys of the first row, none when there is no row.
HeaderSet(data) == IF Len(data) = 0 THEN {} ELSE DOMAIN data[1]

\* C9: in every report of validateData, validRows <= rowCount, validRows is
\* the number of rows without an error (warnings do not lower it), and isValid
\* holds exactly when no row has an error and no required column is missing.
C9_ReportCounts ==
  validationResult # Null =>
    /\ validationResult.validRows <= validationResult.rowCount
    /\ validationResult.validRows =
         Cardinality(CleanRows(csvData, validationResult))
    /\ validationResult.isValid <=>
         /\ RowLevel(validationResult.errors) = {}
         /\ Range(requiredFields) \subseteq HeaderSet(csvData)

\* C9 witness: a report over two rows, one with an error and one with only a
\* warning, the latter being counted.
C9_Witness ==
  /\ validationResult # Null
  /\ validationResult.rowCount = 2
  /\ validationResult.validRows = 1
  /\ validationResult.warnings # <<>>
  /\ \A w \in Range(validationResult.warnings) :
       w.row \in {i + 1 : i \in CleanRows(csvData, validationResult)}

\* C10: for zero data rows the report is rowCount = 0, validRows = 0, the one
\* error "CSV file is empty", no warning, isValid = false, and nothing else.
C10_EmptyFile ==
  (validationResult # Null /\ Len(csvData) = 0) =>
    /\ validationResult.rowCount = 0
    /\ validationResult.validRows = 0
    /\ validationResult.errors = <<ErrEmpty>>
    /\ validationResult.warnings = <<>>
    /\ validationResult.isValid = FALSE

\* C10 witness: an empty row sequence has been validated.
C10_Witness == validationResult # Null /\ Len(csvData) = 0

\* The inserts of upload u the store has committed, in commit order.
Committed(u) == SelectSeq(store, LAMBDA b : b.up = u)

\* The inserts of upload u issued so far: committed or still unanswered.
Issued(u) == Range(Committed(u)) \cup {r \in inflight : r.up = u}

NumEq(a, b) == a.num * b.den = b.num * a.den
NumLeq(a, b) == a.num * b.den <= b.num * a.den
Hundred == Num(100, 1)

\* The first position of an error in the store's answers, 0 when none.
FirstError(answers) ==
  IF \E k \in DOMAIN answers : answers[k] # Null
  THEN CHOOSE k \in DOMAIN answers :
         /\ answers[k] # Null
         /\ \A j \in 1..(k - 1) : answers[j] = Null
  ELSE 0

\* C1 as stated: an insert is issued only while the report currently held is
\* valid and a user is signed in.
C1_IssuedOnlyWhileCurrentValid ==
  [][(inflight' \ inflight) # {} =>
       (validationResult # Null /\ validationResult.isValid /\ user # Null)]_vars

\* C1 amended: every upload started with a user signed in and closed over a
\* row sequence whose report has no error, and every insert issued or
\* committed is a batch of the rows of such an upload; rows of a sequence with
\* an error are never inserted.
C1_OnlyValidatedRowsInserted ==
  /\ \A u \in DOMAIN uploads :
       /\ uploads[u].user # Null
       /\ validateData(uploads[u].data).errors = <<>>
  /\ \A b \in Range(store) \cup inflight :
       /\ b.up \in DOMAIN uploads
       /\ b.records =
            processedBatch(uploads[b.up].data, b.batch, uploads[b.up].user)

\* C1 witness: an insert is outstanding, a batch is committed, and the report
\* now held is that of another file, with errors.
C1_Witness ==
  /\ inflight # {}
  /\ store # <<>>
  /\ validationResult # Null
  /\ ~validationResult.isValid

\* C2: the inserts of one upload are issued in increasing batch index, one at
\* a time: an outstanding insert of batch b has batches 0..b-1 committed, in
\* that order, and no other insert of its upload is outstanding.
C2_OneBatchAtATime ==
  \A u \in DOMAIN uploads :
    /\ Cardinality({r \in inflight : r.up = u}) <= 1
    /\ \A k \in 1..Len(Committed(u)) : Committed(u)[k].batch = k - 1
    /\ \A r \in inflight : r.up = u => r.batch = Len(Committed(u))

\* C2 witness: the third batch of an upload is outstanding.
C2_Witness == \E r \in inflight : r.batch = 2

\* C3: once the store has failed the insert of batch k of an upload, no
\* further insert of that upload is issued (no retry, no later batch) and the
\* store holds exactly its batches before k.
C3_FailureStopsUpload ==
  \A u \in DOMAIN uploads :
    LET k == FirstError(uploads[u].answers)
    IN k # 0 =>
         /\ Len(uploads[u].answers) = k
         /\ {r \in inflight : r.up = u} = {}
         /\ Len(Committed(u)) = k - 1
         /\ \A j \in 1..(k - 1) :
              /\ Committed(u)[j].batch = j - 1
              /\ Committed(u)[j].records =
                   [m \in 1..batchSize |->
                      processRow(uploads[u].data[(j - 1) * batchSize + m],
                                 uploads[u].user)]

\* C3 witness: an upload of three batches failed at its second batch and the
\* first batch is still committed.
C3_Witness ==
  /\ Len(uploads) = 1
  /\ uploads[1].total = 3
  /\ uploads[1].pc = "failed"
  /\ FirstError(uploads[1].answers) = 2
  /\ Len(Committed(1)) = 1

\* C4: the failure an upload surfaces when batch k fails carries the store
\* error and the number of records committed before it, batchSize * (k - 1).
C4_FailureCarriesCommitted ==
  \A u \in DOMAIN uploads :
    uploads[u].pc = "failed" =>
      /\ \E a \in Range(uploads[u].said.args) : a.t = "text"
      /\ NumV(Num(batchSize * uploads[u].i, 1)) \in Range(uploads[u].said.args)

\* C5: the k-th progress value of an upload is the records submitted so far
\* over the total records, times 100.
C5_ProgressByRecords ==
  \A u \in DOMAIN uploads :
    \A k \in DOMAIN uploads[u].reported :
      LET n == Len(uploads[u].data)
          submitted == IF k * batchSize < n THEN k * batchSize ELSE n
      IN NumEq(uploads[u].reported[k], Num(submitted * 100, n))

\* C6: uploadProgress is within 0..100; while uploading stays true it never
\* decreases; and after a batch is committed with the upload going on it is
\* the share of batches committed, above its former value.
C6_ProgressMonotone ==
  [][/\ NumLeq(Zero, uploadProgress') /\ NumLeq(uploadProgress', Hundred)
     /\ (uploading /\ uploading') => NumLeq(uploadProgress, uploadProgress')
     /\ (Len(store') > Len(store) /\ uploading') =>
          LET u == store'[Len(store')].up
          IN /\ NumEq(uploadProgress',
                      Num(100 * Len(SelectSeq(store', LAMBDA b : b.up = u)),
                          uploads[u].total))
             /\ ~NumLeq(uploadProgress', uploadProgress)]_vars

\* C6 witness: an upload in progress shows a progress strictly between 0 and
\* 100 after a committed batch.
C6_Witness ==
  /\ uploading
  /\ Len(store) = 1
  /\ ~NumLeq(uploadProgress, Zero)
  /\ ~NumLeq(Hundred, uploadProgress)

\* C7: an upload reports 100 only as its last value, with every batch
\* committed and no insert failed; uploadProgress itself is 100 only then.
C7_HundredOnlyOnSuccess ==
  /\ \A u \in DOMAIN uploads :
       \A k \in DOMAIN uploads[u].reported :
         NumEq(uploads[u].reported[k], Hundred) =>
           /\ k = uploads[u].total
           /\ Len(Committed(u)) = uploads[u].total
           /\ FirstError(uploads[u].answers) = 0
  /\ NumEq(uploadProgress, Hundred) =>
       \E u \in DOMAIN uploads : Len(Committed(u)) = uploads[u].total

\* C7 witness: an upload reported 100 as its third and last value, its three
\* batches committed.
C7_Witness ==
  \E u \in DOMAIN uploads :
    /\ Len(uploads[u].reported) = 3
    /\ NumEq(uploads[u].reported[3], Hundred)
    /\ ~NumEq(uploads[u].reported[2], Hundred)
    /\ Len(Committed(u)) = 3

RECURSIVE Flatten(_)
Flatten(ss) == IF ss = <<>> THEN <<>> ELSE Head(ss) \o Flatten(Tail(ss))

\* C8: every batch issued holds at most batchSize records and at least one,
\* all but the last exactly batchSize; a finished upload of N records has
\* committed ceil(N / batchSize) batches whose concatenation, in submission
\* order, is the N records in their original order.
C8_BatchPartition ==
  \A u \in DOMAIN uploads :
    LET n == Len(uploads[u].data)
        done == Committed(u)
    IN /\ \A b \in Issued(u) :
            /\ Len(b.records) >= 1
            /\ Len(b.records) <= batchSize
            /\ (b.batch + 1) * batchSize < n => Len(b.records) = batchSize
       /\ uploads[u].pc = "done" =>
            /\ Len(done) * batchSize >= n
            /\ (Len(done) - 1) * batchSize < n
            /\ Flatten([k \in 1..Len(done) |-> done[k].records]) =
                 [k \in 1..n |-> processRow(uploads[u].data[k], uploads[u].user)]

\* C8 witness: an upload of MaxRows records has finished with three batches,
\* the last one shorter.
C8_Witness ==
  \E u \in DOMAIN uploads :
    /\ uploads[u].pc = "done"
    /\ Len(uploads[u].data) = MaxRows
    /\ Len(Committed(u)) = 3
    /\ Len(Committed(u)[3].records) < batchSize

\* ------------------------------------------------- claims on the validator
\* A required field is missing from a row: absent, or empty after trimming.
Missing(row, f) == ~Has(row, f) \/ trim(row[f]) = <<>>

\* The field a row-level finding is about.
FieldOf(e) == IF "field" \in DOMAIN e THEN e.field ELSE e.name

\* The positions in a list of findings of those about field f of data row i.
About(findings, i, f) ==
  {k \in DOMAIN findings :
     /\ "row" \in DOMAIN findings[k]
     /\ findings[k].row = i + 1
     /\ FieldOf(findings[k]) = f}

\* C11: a row in which a required field is absent or empty after trimming
\* gets exactly one error for that field, no second one, and is not counted
\* in validRows.
C11_OneErrorPerMissingField ==
  validationResult # Null =>
    \A i \in DOMAIN csvData : \A f \in Range(requiredFields) :
      Missing(csvData[i], f) =>
        /\ Cardinality(About(validationResult.errors, i, f)) = 1
        /\ i \notin CleanRows(csvData, validationResult)

\* lo <= x <= hi for a number x that is not NaN.
InRange(x, lo, hi) ==
  ~x.nan /\ NumLeq(Num(lo, 1), x) /\ NumLeq(x, Num(hi, 1))

InvalidAbout(findings, i, f) ==
  {k \in About(findings, i, f) : findings[k].kind = "Invalid"}

\* C12: a row whose latitude parses to no number or lies outside [-90, 90],
\* or whose longitude parses to no number or lies outside [-180, 180], has an
\* "Invalid" error printing the raw value and is not counted; a coordinate
\* inside its range, the bounds included, has no "Invalid" error.
C12_CoordinateRanges ==
  validationResult # Null =>
    \A i \in DOMAIN csvData :
      LET row == csvData[i]
          lat == parseFloat(row, "latitude")
          lng == parseFloat(row, "longitude")
          errors == validationResult.errors
      IN /\ ~InRange(lat, -90, 90) =>
              /\ ErrInvalid(i + 1, "latitude", Interp(row, "latitude"))
                   \in Range(errors)
              /\ i \notin CleanRows(csvData, validationResult)
         /\ ~InRange(lng, -180, 180) =>
              /\ ErrInvalid(i + 1, "longitude", Interp(row, "longitude"))
                   \in Range(errors)
              /\ i \notin CleanRows(csvData, validationResult)
         /\ InRange(lat, -90, 90) => InvalidAbout(errors, i, "latitude") = {}
         /\ InRange(lng, -180, 180) => InvalidAbout(errors, i, "longitude") = {}

\* C12 witness: a report over a row with latitude on the bound 90, counted,
\* and a row with latitude 91, refused.
C12_Witness ==
  /\ validationResult # Null
  /\ Len(csvData) = 2
  /\ csvData[1] = [baseRow EXCEPT !.latitude = <<"9", "0">>]
  /\ csvData[2] = [baseRow EXCEPT !.latitude = <<"9", "1">>]
  /\ CleanRows(csvData, validationResult) = {1}
  /\ validationResult.validRows = 1

\* The optional columns validateData looks at.
checkedOptional == {"risk_status", "summer_capacity", "winter_capacity"}

\* The row sequence with the checked optional cells taken out of every row.
WithoutOptional(data) ==
  [i \in DOMAIN data |->
     [g \in DOMAIN data[i] \ checkedOptional |-> data[i][g]]]

\* C13: a risk_status present, non-empty and neither High nor Low, and a
\* summer_capacity / winter_capacity present, non-empty and parsing to no
\* number, each give a warning printing the raw value and no error; errors,
\* validRows and isValid are what they are for the same rows without these
\* cells.
C13_WarningsDoNotDisqualify ==
  validationResult # Null =>
    LET bare == validateData(WithoutOptional(csvData))
    IN /\ \A i \in DOMAIN csvData :
            LET row == csvData[i]
            IN /\ (Truthy(row, "risk_status") /\ ~isRisk(row["risk_status"])) =>
                    ErrInvalid(i + 1, "risk_status", row["risk_status"])
                      \in Range(validationResult.warnings)
               /\ \A f \in {"summer_capacity", "winter_capacity"} :
                    (Truthy(row, f) /\ isNaN(parseFloatStr(row[f]))) =>
                      ErrInvalid(i + 1, f, row[f])
                        \in Range(validationResult.warnings)
               /\ \A f \in checkedOptional :
                    About(validationResult.errors, i, f) = {}
       /\ validationResult.errors = bare.errors
       /\ validationResult.validRows = bare.validRows
       /\ validationResult.isValid = bare.isValid

\* C13 witness: a valid report over two counted rows, one warned for its
\* risk_status and one for its summer_capacity.
C13_Witness ==
  /\ validationResult # Null
  /\ validationResult.isValid
  /\ validationResult.validRows = 2
  /\ About(validationResult.warnings, 1, "risk_status") # {}
  /\ About(validationResult.warnings, 2, "summer_capacity") # {}

\* The positions of the document-level errors of a report over some rows:
\* those naming no row.
DocLevel(errors) == {k \in DOMAIN errors : "row" \notin DOMAIN errors[k]}

\* The required columns absent from the header set, in registry order.
AbsentColumns(data) ==
  SelectSeq(requiredFields, LAMBDA f : f \notin HeaderSet(data))

\* C14 as stated: over a file with rows, the report holds one document-level
\* error for each required column absent from the header set.
C14_OneErrorPerAbsentColumn ==
  (validationResult # Null /\ Len(csvData) > 0) =>
    Cardinality(DocLevel(validationResult.errors)) =
      Len(AbsentColumns(csvData))

\* C14 amended: when required columns are absent from the header set, the
\* report's first error, and its only document-level one, is a single
\* "Missing required columns" error listing all of them in registry order,
\* however many rows the file has; with no column absent there is no
\* document-level error.
C14_OneJoinedColumnsError ==
  (validationResult # Null /\ Len(csvData) > 0) =>
    IF AbsentColumns(csvData) = <<>>
    THEN DocLevel(validationResult.errors) = {}
    ELSE /\ DocLevel(validationResult.errors) = {1}
         /\ validationResult.errors[1] = ErrColumns(AbsentColumns(csvData))

\* C14 witness: two rows, both without any required column, and one
\* document-level error naming the three columns.
C14_Witness ==
  /\ validationResult # Null
  /\ Len(csvData) = 2
  /\ \A i \in 1..2 : DOMAIN csvData[i] \cap Range(requiredFields) = {}
  /\ Len(AbsentColumns(csvData)) = 3
  /\ Cardinality(DocLevel(validationResult.errors)) = 1

\* C15: when a required column is absent from the header set, the report
\* holds the missing-column error(s) only: no row-level error, no warning.
C15_AbortOnMissingColumn ==
  (validationResult # Null /\ Len(csvData) > 0
     /\ AbsentColumns(csvData) # <<>>) =>
    /\ RowLevel(validationResult.errors) = {}
    /\ validationResult.warnings = <<>>

\* ------------------------------------------------- claims on the component
\* The selected file is one the parser failed on, and every parse started for
\* it has called back.
ParseFailed ==
  /\ file # Null
  /\ file.kind = "malformed"
  /\ \A job \in parsing : job.file # file

\* C16: once the parse of the selected file has failed, no upload starts (no
\* batch is submitted) while that file stays selected, whatever was dropped
\* before it; and the failed file's parse stores and validates nothing.
C16_ParseFailureTerminal ==
  [][/\ ParseFailed => Len(uploads') = Len(uploads)
     /\ (\E job \in parsing : job.file.kind = "malformed"
                                /\ parsing' = parsing \ {job}) =>
          (csvData' = csvData /\ validationResult' = validationResult)]_vars

\* The raw row a record of an insert request was made from.
RawRow(req, k) == uploads[req.up].data[req.batch * batchSize + k]

capacityFields == {"summer_capacity", "winter_capacity"}

\* C18: every record of every insert has latitude and longitude numbers in
\* range, risk_status High, Low or null, each capacity null or a parsed
\* number (not NaN), every optional text field null when its raw value is
\* absent or empty, and uploaded_by the id of the signed-in user.
C18_WellTypedRecords ==
  \A req \in Range(store) \cup inflight :
    \A k \in DOMAIN req.records :
      LET rec == req.records[k]
          raw == RawRow(req, k)
      IN /\ rec.latitude.t = "num" /\ InRange(rec.latitude.n, -90, 90)
         /\ rec.longitude.t = "num" /\ InRange(rec.longitude.n, -180, 180)
         /\ rec.risk_status \in {StrV(High), StrV(Low), Null}
         /\ \A f \in capacityFields :
              rec[f] = Null \/ (rec[f].t = "num" /\ ~isNaN(rec[f].n))
         /\ \A f \in optionalTextFields :
              (~Has(raw, f) \/ raw[f] = <<>>) => rec[f] = Null
         /\ user # Null /\ rec.uploaded_by = user.id

\* The uploadData invocations suspended at their await.
Awaiting == {u \in DOMAIN uploads : uploads[u].pc = "await"}

\* C19: at most one uploadData invocation is inside its batch loop and at
\* most one insert is outstanding, that of the loop's current batch;
\* uploading is true exactly while an invocation is in its loop.
C19_OneUploadAtATime ==
  /\ Cardinality(Awaiting) <= 1
  /\ Cardinality(inflight) <= 1
  /\ uploading <=> Awaiting # {}
  /\ \A req \in inflight :
       /\ req.up \in Awaiting
       /\ req.batch = uploads[req.up].i
       /\ \A b \in Range(store) : ~(b.up = req.up /\ b.batch = req.batch)

\* C19 witness: a second upload is in its loop after the first one ended.
C19_Witness ==
  /\ Len(uploads) = 2
  /\ uploads[1].pc # "await"
  /\ uploads[2].pc = "await"
  /\ inflight # {}

\* C20: with every parse called back and a file the parser delivers rows for
\* held as selected, csvData and the report are those of that file.
C20_DataOfSelectedFile ==
  (/\ file # Null
   /\ file.kind # "malformed"
   /\ parsing = {}
   /\ validationResult # Null) =>
    /\ csvData = FileRows(file)
    /\ validationResult = validateData(FileRows(file))

\* Upload u leaves its loop in this step with the given outcome.
Ends(u, outcome) == uploads[u].pc = "await" /\ uploads'[u].pc = outcome

\* C21: when an upload ends in success while the component holds another
\* file, dropped and validated during the upload, with that file's rows and
\* report, the reset leaves file, csvData and validationResult as they are.
C21_ResetKeepsOtherFile ==
  [][\A u \in DOMAIN uploads :
       (/\ Ends(u, "done")
        /\ file # Null
        /\ validationResult # Null
        /\ csvData # uploads[u].data
        /\ csvData = FileRows(file)
        /\ validationResult = validateData(csvData)) =>
         /\ file' = file
         /\ csvData' = csvData
         /\ validationResult' = validationResult]_vars

\* C22: the step in which an upload fails changes none of file, csvData and
\* validationResult, sets uploading to false and uploadProgress to 0, and
\* leaves the button offered if it was; the step in which an upload succeeds
\* sets file to null, csvData to [] and validationResult to null, so that the
\* button is gone, and the button comes back only with a parse calling back.
C22_FrameOfUploadEnd ==
  [][/\ \A u \in DOMAIN uploads :
          /\ Ends(u, "failed") =>
               /\ file' = file
               /\ csvData' = csvData
               /\ validationResult' = validationResult
               /\ ~uploading' /\ uploadProgress' = Zero
               /\ buttonOffered => (buttonOffered /\ buttonEnabled)'
          /\ Ends(u, "done") =>
               /\ file' = Null
               /\ csvData' = <<>>
               /\ validationResult' = Null
               /\ ~uploading' /\ uploadProgress' = Zero
               /\ ~buttonOffered'
     /\ (~buttonOffered /\ buttonOffered') =>
          (parsing' # parsing /\ parsing' \subseteq parsing)]_vars

\* C22 witness: an upload failed, the same rows were uploaded again by a
\* second click, and that upload succeeded and cleared the form.
C22_Witness ==
  /\ Len(uploads) = 2
  /\ uploads[1].pc = "failed"
  /\ uploads[2].pc = "done"
  /\ uploads[2].data = uploads[1].data
  /\ file = Null
  /\ validationResult = Null

\* C23: with a store that answers every insert, uploading = true leads to
\* uploading = false with uploadProgress = 0.
C23_UploadEnds ==
  uploading ~> (~uploading /\ uploadProgress = Zero)

\* C23 witness: an upload of two batches has ended in success and another
\* has ended in failure, and the component is idle.
C23_Witness ==
  /\ \E u \in DOMAIN uploads :
       uploads[u].pc = "done" /\ Len(uploads[u].answers) = 2
  /\ \E u \in DOMAIN uploads : uploads[u].pc = "failed"
  /\ ~uploading
  /\ uploadProgress = Zero

====
